---- MODULE Spec2Model ----
(***************************************************************************)
(* Model of the UVM toolchain: the assembler (src/assembler.py), the       *)
(* interpreter (src/interpreter.py) and the command-line driver            *)
(* (src/main.py).                                                          *)
(*                                                                         *)
(* Number representation.  Python integers are unbounded, TLC integers are *)
(* 32-bit.  The 40-bit instruction value is therefore kept as its binary   *)
(* expansion (a function 0..39 -> {0,1}), and a register or data-memory    *)
(* value as two 16-bit limbs [hi, lo] standing for hi * 2^16 + lo.  Every  *)
(* shift, mask and complement of the source is computed on these           *)
(* representations bit by bit.                                             *)
(*                                                                         *)
(* The data memory, a Python list of 8192 integers, is kept as its length  *)
(* together with the cells that are not zero: [len, cells].  MemGet and    *)
(* MemSet are the list's indexed read and write.                           *)
(***************************************************************************)
EXTENDS Integers, Sequences, FiniteSets, TLC

VARIABLES
    data,             \* assemble: the command list read from the input file
    program,          \* Assembler.program
    binary_data,      \* Assembler.binary_data
    output_file,      \* content of the assembler's output file (NoFile: not written)
    assemble_result,  \* return value of assemble ("none" before the call)
    error_line,       \* line number printed by the failing _translate_* (-1: none)
    translate_calls,  \* number of _translate_command calls made by assemble
    assemble_calls,   \* number of assemble calls made on the Assembler instance
    interp,           \* interpreter instance -> its fields
    run_state,        \* interpreter instance -> position of its caller
    executed,         \* interpreter instance -> execute_instruction calls so far
    run_calls,        \* interpreter instance -> run() calls so far
    stored,           \* interpreter instance -> (address -> the word that the last
                      \*   write_mem or not executed on that address left there)
    asm_exit,         \* exit status of the assembler's process (-1: not ended)
    run_exit,         \* exit status of the interpreter's process (-1: not ended)
    dump_args,        \* save_memory_dump: <<start_addr, end_addr>> (<<>>: not called)
    dump_result,      \* return value of save_memory_dump ("none" before the call)
    dump_file,        \* content of the dump file (NoDump: not written)
    decode_arg,       \* decode_instruction called on its own: the argument
    decode_ret        \*   and the value returned (NoArg, None: not called)

vars == <<data, program, binary_data, output_file, assemble_result, error_line,
          translate_calls, assemble_calls, interp, run_state, executed, run_calls, stored,
          asm_exit, run_exit, dump_args, dump_result, dump_file,
          decode_arg, decode_ret>>

asmVars == <<data, program, binary_data, output_file, assemble_result,
             error_line, translate_calls, assemble_calls, asm_exit>>

intVars == <<interp, run_state, executed, run_calls, stored>>

dumpVars == <<run_exit, dump_args, dump_result, dump_file>>

decodeVars == <<decode_arg, decode_ret>>

-----------------------------------------------------------------------------
(* Program constants *)

\* Assembler.OPCODES
OPCODES ==
    [load_const |-> 56, write_mem |-> 54, not |-> 59, read_mem |-> 62]

\* (mutant) the codes of write_mem and not are exchanged in the decoder
REVERSE_OPCODES_Swapped ==
    (56 :> "load_const") @@ (59 :> "write_mem") @@ (54 :> "not") @@
    (62 :> "read_mem")

\* Interpreter.REVERSE_OPCODES
REVERSE_OPCODES ==
    (56 :> "load_const") @@ (54 :> "write_mem") @@ (59 :> "not") @@
    (62 :> "read_mem")

MemSize == 8192   \* len(self.data_memory)
NumRegs == 128    \* len(self.registers)

(* Bounds of the model *)

MaxCmds == 3
MaxWords == 2
MaxRuns == 2
MaxBytes == 6
MaxCalls == 2

-----------------------------------------------------------------------------
(* Integers *)

Pow2(n) == 2 ^ n

\* bit k of a non-negative integer below 2^31
Bit(x, k) == IF k > 30 THEN 0 ELSE (x \div Pow2(k)) % 2

\* x & (2^w - 1) for a Python int x (two's complement of unbounded width)
Mask(x, w) == x % Pow2(w)

RECURSIVE SumBits(_, _, _)
\* sum of f[from + j] * 2^j for j in 0..width-1
SumBits(f, from, width) ==
    IF width = 0 THEN 0
    ELSE f[from] + 2 * SumBits(f, from + 1, width - 1)

\* a register / memory value as two 16-bit limbs
W32(n) == [hi |-> n \div 65536, lo |-> n % 65536]
Zero == W32(0)

\* bitwise complement of a 16-bit limb
BitNot16(x) == SumBits([j \in 0..15 |-> 1 - Bit(x, j)], 0, 16)

-----------------------------------------------------------------------------
(* Assembler: validation of one command.  A command is a record (a JSON     *)
(* object); a result is [ok, program, line], line being the line number of *)
(* the printed error.                                                      *)

Rejected(prog, line_num) == [ok |-> FALSE, program |-> prog, line |-> line_num]
Accepted(prog) == [ok |-> TRUE, program |-> prog, line |-> -1]

\* all(field in cmd for field in required)
HasFields(cmd, required) == \A field \in required : field \in DOMAIN cmd

\* 0 <= cmd[...] <= 127
RegInRange(r) == 0 <= r /\ r <= 127

\* (mutant) the upper limit of value is exclusive
ValueInRange_Exclusive(v) == 0 <= v /\ v < 33554431

\* 0 <= cmd['value'] <= 0x1FFFFFF
ValueInRange(v) == 0 <= v /\ v <= 33554431

\* 0 <= cmd['dest_addr'] <= 0x1FFF
AddrInRange(a) == 0 <= a /\ a <= 8191

translate_load_const(cmd, line_num, prog) ==
    IF ~HasFields(cmd, {"dest_reg", "value"}) THEN Rejected(prog, line_num)
    ELSE IF ~RegInRange(cmd.dest_reg) THEN Rejected(prog, line_num)
    ELSE IF ~ValueInRange(cmd.value) THEN Rejected(prog, line_num)
    ELSE Accepted(Append(prog,
            [opcode |-> "load_const", A |-> OPCODES["load_const"],
             B |-> cmd.dest_reg, C |-> cmd.value, size_C |-> 25]))

translate_read_mem(cmd, line_num, prog) ==
    IF ~HasFields(cmd, {"src_reg", "dest_reg"}) THEN Rejected(prog, line_num)
    ELSE IF ~RegInRange(cmd.src_reg) THEN Rejected(prog, line_num)
    ELSE IF ~RegInRange(cmd.dest_reg) THEN Rejected(prog, line_num)
    ELSE Accepted(Append(prog,
            [opcode |-> "read_mem", A |-> OPCODES["read_mem"],
             B |-> cmd.src_reg, C |-> cmd.dest_reg, size_C |-> 7]))

translate_write_mem(cmd, line_num, prog) ==
    IF ~HasFields(cmd, {"src_reg", "dest_addr"}) THEN Rejected(prog, line_num)
    ELSE IF ~RegInRange(cmd.src_reg) THEN Rejected(prog, line_num)
    ELSE IF ~AddrInRange(cmd.dest_addr) THEN Rejected(prog, line_num)
    ELSE Accepted(Append(prog,
            [opcode |-> "write_mem", A |-> OPCODES["write_mem"],
             B |-> cmd.src_reg, C |-> cmd.dest_addr, size_C |-> 13]))

translate_not(cmd, line_num, prog) ==
    IF ~HasFields(cmd, {"src_reg", "dest_addr"}) THEN Rejected(prog, line_num)
    ELSE IF ~RegInRange(cmd.src_reg) THEN Rejected(prog, line_num)
    ELSE IF ~AddrInRange(cmd.dest_addr) THEN Rejected(prog, line_num)
    ELSE Accepted(Append(prog,
            [opcode |-> "not", A |-> OPCODES["not"],
             B |-> cmd.src_reg, C |-> cmd.dest_addr, size_C |-> 13]))

translate_command(cmd, line_num, prog) ==
    IF "opcode" \notin DOMAIN cmd THEN Rejected(prog, line_num)
    ELSE IF cmd.opcode = "load_const" THEN translate_load_const(cmd, line_num, prog)
    ELSE IF cmd.opcode = "read_mem" THEN translate_read_mem(cmd, line_num, prog)
    ELSE IF cmd.opcode = "write_mem" THEN translate_write_mem(cmd, line_num, prog)
    ELSE IF cmd.opcode = "not" THEN translate_not(cmd, line_num, prog)
    ELSE Rejected(prog, line_num)

RECURSIVE TranslateAll_OneBased(_, _, _)
\* (mutant) enumerate(data, 1): the reported index is one-based
TranslateAll_OneBased(d, k, prog) ==
    IF k > Len(d) THEN [ok |-> TRUE, program |-> prog, line |-> -1, calls |-> k - 1]
    ELSE LET r == translate_command(d[k], k, prog)
         IN  IF ~r.ok
             THEN [ok |-> FALSE, program |-> r.program, line |-> r.line, calls |-> k]
             ELSE TranslateAll_OneBased(d, k + 1, r.program)

RECURSIVE TranslateAll(_, _, _)
\* for i, cmd in enumerate(data): if not self._translate_command(cmd, i):
\*     return False          (k = i + 1 indexes the sequence)
\* calls counts the _translate_command calls made.
TranslateAll(d, k, prog) ==
    IF k > Len(d) THEN [ok |-> TRUE, program |-> prog, line |-> -1, calls |-> k - 1]
    ELSE LET r == translate_command(d[k], k - 1, prog)
         IN  IF ~r.ok
             THEN [ok |-> FALSE, program |-> r.program, line |-> r.line, calls |-> k]
             ELSE TranslateAll(d, k + 1, r.program)

-----------------------------------------------------------------------------
(* Assembler: packing *)

\* bit n of (x << shift), x a non-negative integer below 2^31
ShiftedBit(x, shift, n) == IF n < shift THEN 0 ELSE Bit(x, n - shift)

BitOr(a, b) == IF a = 1 \/ b = 1 THEN 1 ELSE 0

\* value = (A & 0x3F) | (B & 0x7F) << 6 | (C & (2^cw - 1)) << 13
PackValue(A, B, C, cw) ==
    [n \in 0..39 |->
        BitOr(BitOr(ShiftedBit(Mask(A, 6), 0, n), ShiftedBit(Mask(B, 7), 6, n)),
              ShiftedBit(Mask(C, cw), 13, n))]

\* (mutant) value.to_bytes(5, byteorder='big')
ToBytesBig(value) == [k \in 1..5 |-> SumBits(value, 8 * (5 - k), 8)]

\* value.to_bytes(5, byteorder='little')
ToBytesLittle(value) == [k \in 1..5 |-> SumBits(value, 8 * (k - 1), 8)]

\* the body of the loop of _generate_binary; <<>> stands for 'return False'
EncodeCommand(cmd) ==
    IF cmd.opcode = "load_const" THEN ToBytesLittle(PackValue(cmd.A, cmd.B, cmd.C, 25))
    ELSE IF cmd.opcode = "read_mem" THEN ToBytesLittle(PackValue(cmd.A, cmd.B, cmd.C, 7))
    ELSE IF cmd.opcode = "write_mem" \/ cmd.opcode = "not"
         THEN ToBytesLittle(PackValue(cmd.A, cmd.B, cmd.C, 13))
    ELSE <<>>

RECURSIVE GenerateFrom_Prepend(_, _, _)
\* (mutant) each encoded command is put in front of the stream
GenerateFrom_Prepend(prog, k, bytes) ==
    IF k > Len(prog) THEN [ok |-> TRUE, binary_data |-> bytes]
    ELSE LET bytes_5 == EncodeCommand(prog[k])
         IN  IF bytes_5 = <<>> THEN [ok |-> FALSE, binary_data |-> bytes]
             ELSE GenerateFrom_Prepend(prog, k + 1, bytes_5 \o bytes)

RECURSIVE GenerateFrom(_, _, _)
GenerateFrom(prog, k, bytes) ==
    IF k > Len(prog) THEN [ok |-> TRUE, binary_data |-> bytes]
    ELSE LET bytes_5 == EncodeCommand(prog[k])
         IN  IF bytes_5 = <<>> THEN [ok |-> FALSE, binary_data |-> bytes]
             ELSE GenerateFrom(prog, k + 1, bytes \o bytes_5)

\* self.binary_data = bytearray(); for cmd in self.program: ...
generate_binary(prog) == GenerateFrom(prog, 1, <<>>)

-----------------------------------------------------------------------------
(* Interpreter *)

\* [0] * n
ZeroList(n) == [len |-> n, cells |-> <<>>]

\* mem[a], 0 <= a < len(mem)
MemGet(mem, a) == IF a \in DOMAIN mem.cells THEN mem.cells[a] ELSE Zero

\* mem[a] = w, 0 <= a < len(mem)
MemSet(mem, a, w) ==
    [mem EXCEPT !.cells =
        IF w = Zero THEN [x \in (DOMAIN mem.cells) \ {a} |-> mem.cells[x]]
        ELSE [x \in (DOMAIN mem.cells) \cup {a} |->
                 IF x = a THEN w ELSE mem.cells[x]]]

\* Interpreter.__init__
NewInterpreter ==
    [instruction_memory |-> <<>>,
     data_memory |-> ZeroList(MemSize),
     registers |-> [r \in 0..(NumRegs - 1) |-> Zero],
     pc |-> 0,
     halted |-> FALSE]

None == [none |-> TRUE]

\* int.from_bytes(instruction_bytes, 'little')
FromBytesLittle(bytes) == [n \in 0..39 |-> Bit(bytes[(n \div 8) + 1], n % 8)]

\* (value >> shift) & (2^width - 1)
Field(value, shift, width) == SumBits(value, shift, width)

\* (mutant) the C field extracted with the 25-bit mask for every opcode
DecodeC_Wide(opcode_name, value) == SumBits(value, 13, 25)

\* (mutant) the C field of read_mem extracted with a 6-bit mask
DecodeC_NarrowReadMem(opcode_name, value) ==
    IF opcode_name = "load_const" THEN SumBits(value, 13, 25)
    ELSE IF opcode_name = "read_mem" THEN SumBits(value, 13, 6)
    ELSE SumBits(value, 13, 13)

\* the C field of an instruction of the given kind
DecodeC(opcode_name, value) ==
    IF opcode_name = "load_const" THEN Field(value, 13, 25)
    ELSE IF opcode_name = "read_mem" THEN Field(value, 13, 7)
    ELSE Field(value, 13, 13)

\* (mutant) B extracted with a 6-bit mask
decode_instruction_NarrowB(instruction_bytes) ==
    IF Len(instruction_bytes) # 5 THEN None
    ELSE LET value == FromBytesLittle(instruction_bytes)
             A == Field(value, 0, 6)
             B == Field(value, 6, 6)
         IN  IF A \notin DOMAIN REVERSE_OPCODES THEN None
             ELSE [opcode |-> REVERSE_OPCODES[A], A |-> A, B |-> B,
                   C |-> DecodeC(REVERSE_OPCODES[A], value)]

\* (mutant) only inputs shorter than 5 bytes are refused
decode_instruction_AtLeast5(instruction_bytes) ==
    IF Len(instruction_bytes) < 5 THEN None
    ELSE LET value == FromBytesLittle(instruction_bytes)
             A == Field(value, 0, 6)
             B == Field(value, 6, 7)
         IN  IF A \notin DOMAIN REVERSE_OPCODES THEN None
             ELSE [opcode |-> REVERSE_OPCODES[A], A |-> A, B |-> B,
                   C |-> DecodeC(REVERSE_OPCODES[A], value)]

\* (mutant) an unknown opcode code is decoded as a load_const
decode_instruction_DefaultOpcode(instruction_bytes) ==
    IF Len(instruction_bytes) # 5 THEN None
    ELSE LET value == FromBytesLittle(instruction_bytes)
             A == Field(value, 0, 6)
             B == Field(value, 6, 7)
             name == IF A \in DOMAIN REVERSE_OPCODES THEN REVERSE_OPCODES[A]
                     ELSE "load_const"
         IN  [opcode |-> name, A |-> A, B |-> B, C |-> DecodeC(name, value)]

decode_instruction(instruction_bytes) ==
    IF Len(instruction_bytes) # 5 THEN None
    ELSE LET value == FromBytesLittle(instruction_bytes)
             A == Field(value, 0, 6)
             B == Field(value, 6, 7)
         IN  IF A \notin DOMAIN REVERSE_OPCODES THEN None
             ELSE [opcode |-> REVERSE_OPCODES[A], A |-> A, B |-> B,
                   C |-> DecodeC(REVERSE_OPCODES[A], value)]

\* 0 <= src_addr < len(self.data_memory), src_addr a register value
WordInMemory(w, mem) == w.hi = 0 /\ w.lo < mem.len

\* 0 <= dest_addr < len(self.data_memory), dest_addr an instruction field
AddrInMemory(a, mem) == 0 <= a /\ a < mem.len

\* (mutant) ~x without the mask: the negative number -x - 1
Not32_Unmasked(w) == [hi |-> -1 - w.hi, lo |-> 65535 - w.lo]

\* (mutant) ~x & 0x1FFFFFF: the complement masked to the width of an immediate
Not32_Masked25(w) == [hi |-> BitNot16(w.hi) % 512, lo |-> BitNot16(w.lo)]

\* ~x & 0xFFFFFFFF
Not32(w) == [hi |-> BitNot16(w.hi), lo |-> BitNot16(w.lo)]

\* (mutant) read_mem stores the word it read in register B
execute_instruction_ReadIntoB(s, instruction) ==
    IF instruction.opcode = "load_const"
    THEN [s EXCEPT !.registers[instruction.B] = W32(instruction.C)]
    ELSE IF instruction.opcode = "read_mem"
    THEN LET src_addr == s.registers[instruction.B]
         IN  IF WordInMemory(src_addr, s.data_memory)
             THEN [s EXCEPT !.registers[instruction.B] =
                                MemGet(s.data_memory, src_addr.lo)]
             ELSE s
    ELSE IF instruction.opcode = "write_mem"
    THEN [s EXCEPT !.data_memory =
              MemSet(@, instruction.C, s.registers[instruction.B])]
    ELSE [s EXCEPT !.data_memory =
              MemSet(@, instruction.C, Not32(s.registers[instruction.B]))]

\* (mutant) read_mem reads the memory word at address C, not at register[B]
execute_instruction_ReadDirect(s, instruction) ==
    IF instruction.opcode = "load_const"
    THEN [s EXCEPT !.registers[instruction.B] = W32(instruction.C)]
    ELSE IF instruction.opcode = "read_mem"
    THEN [s EXCEPT !.registers[instruction.C] = MemGet(s.data_memory, instruction.C)]
    ELSE IF instruction.opcode = "write_mem"
    THEN [s EXCEPT !.data_memory =
              MemSet(@, instruction.C, s.registers[instruction.B])]
    ELSE [s EXCEPT !.data_memory =
              MemSet(@, instruction.C, Not32(s.registers[instruction.B]))]

\* (mutant) not complements register B in place as well as storing the result
execute_instruction_NotInPlace(s, instruction) ==
    IF instruction.opcode = "load_const"
    THEN [s EXCEPT !.registers[instruction.B] = W32(instruction.C)]
    ELSE IF instruction.opcode = "read_mem"
    THEN LET src_addr == s.registers[instruction.B]
         IN  IF WordInMemory(src_addr, s.data_memory)
             THEN [s EXCEPT !.registers[instruction.C] =
                                MemGet(s.data_memory, src_addr.lo)]
             ELSE s
    ELSE IF instruction.opcode = "write_mem"
    THEN [s EXCEPT !.data_memory =
              MemSet(@, instruction.C, s.registers[instruction.B])]
    ELSE [s EXCEPT !.data_memory =
              MemSet(@, instruction.C, Not32(s.registers[instruction.B])),
                   !.registers[instruction.B] = Not32(s.registers[instruction.B])]

\* execute_instruction: the interpreter after one instruction
execute_instruction(s, instruction) ==
    IF instruction.opcode = "load_const"
    THEN [s EXCEPT !.registers[instruction.B] = W32(instruction.C)]
    ELSE IF instruction.opcode = "read_mem"
    THEN LET src_addr == s.registers[instruction.B]
         IN  IF WordInMemory(src_addr, s.data_memory)
             THEN [s EXCEPT !.registers[instruction.C] =
                                MemGet(s.data_memory, src_addr.lo)]
             ELSE s
    ELSE IF instruction.opcode = "write_mem"
    THEN LET dest_addr == instruction.C
         IN  IF AddrInMemory(dest_addr, s.data_memory)
             THEN [s EXCEPT !.data_memory =
                         MemSet(@, dest_addr, s.registers[instruction.B])]
             ELSE s
    ELSE IF instruction.opcode = "not"
    THEN LET dest_addr == instruction.C
         IN  IF AddrInMemory(dest_addr, s.data_memory)
             THEN [s EXCEPT !.data_memory =
                         MemSet(@, dest_addr, Not32(s.registers[instruction.B]))]
             ELSE s
    ELSE s

\* while not self.halted and self.pc < len(self.instruction_memory)
LoopGuard(s) == ~s.halted /\ s.pc < Len(s.instruction_memory)

\* (mutant) the incomplete-instruction test is off by one
Incomplete_OffByOne(s) == s.pc + 5 >= Len(s.instruction_memory)

\* if self.pc + 5 > len(self.instruction_memory): break
Incomplete(s) == s.pc + 5 > Len(s.instruction_memory)

\* self.instruction_memory[self.pc:self.pc + 5]
Fetch(s) == SubSeq(s.instruction_memory, s.pc + 1, s.pc + 5)

\* one iteration of the loop of run() is carried out to its end
CanStep(s) ==
    /\ LoopGuard(s)
    /\ ~Incomplete(s)
    /\ decode_instruction(Fetch(s)) # None

\* (mutant) a read_mem whose address is out of bounds stops the program
StepResult_FatalRead(s) ==
    LET instruction == decode_instruction(Fetch(s))
        t == execute_instruction(s, instruction)
        u == [t EXCEPT !.pc = t.pc + 5]
    IN  IF \/ u.pc >= Len(u.instruction_memory)
           \/ /\ instruction.opcode = "read_mem"
              /\ ~WordInMemory(s.registers[instruction.B], s.data_memory)
        THEN [u EXCEPT !.halted = TRUE] ELSE u

\* (mutant) the PC advances as if a separator byte followed every word
StepResult_SeparatorByte(s) ==
    LET t == execute_instruction(s, decode_instruction(Fetch(s)))
        u == [t EXCEPT !.pc = t.pc + 6]
    IN  IF u.pc >= Len(u.instruction_memory) THEN [u EXCEPT !.halted = TRUE] ELSE u

\* execute, self.pc += 5, if self.pc >= len(...): self.halted = True
StepResult(s) ==
    LET t == execute_instruction(s, decode_instruction(Fetch(s)))
        u == [t EXCEPT !.pc = t.pc + 5]
    IN  IF u.pc >= Len(u.instruction_memory) THEN [u EXCEPT !.halted = TRUE] ELSE u

\* f"0x{value:08X}": the eight hexadecimal digits of a word
Hex8(w) ==
    <<w.hi \div 4096, (w.hi \div 256) % 16, (w.hi \div 16) % 16, w.hi % 16,
      w.lo \div 4096, (w.lo \div 256) % 16, (w.lo \div 16) % 16, w.lo % 16>>

\* (mutant) for addr in range(start_addr, end_addr)
save_memory_dump_ExclusiveEnd(s, start_addr, end_addr) ==
    IF \/ start_addr < 0
       \/ end_addr >= s.data_memory.len
       \/ start_addr > end_addr
    THEN [ok |-> FALSE]
    ELSE [ok |-> TRUE,
          range |-> [start |-> start_addr, end |-> end_addr],
          cells |-> [k \in 1..(end_addr - start_addr) |->
                        [address |-> start_addr + k - 1,
                         value |-> MemGet(s.data_memory, start_addr + k - 1),
                         hex |-> Hex8(MemGet(s.data_memory, start_addr + k - 1))]]]

\* save_memory_dump: the return value and, when True, the range element and
\* the cell elements of the file written
save_memory_dump(s, start_addr, end_addr) ==
    IF \/ start_addr < 0
       \/ end_addr >= s.data_memory.len
       \/ start_addr > end_addr
    THEN [ok |-> FALSE]
    ELSE [ok |-> TRUE,
          range |-> [start |-> start_addr, end |-> end_addr],
          cells |-> [k \in 1..(end_addr - start_addr + 1) |->
                        [address |-> start_addr + k - 1,
                         value |-> MemGet(s.data_memory, start_addr + k - 1),
                         hex |-> Hex8(MemGet(s.data_memory, start_addr + k - 1))]]]

\* the stores executed so far: when the instruction at the PC of s is a
\* write_mem or a not whose address is in bounds, the word that it assigns to
\* self.data_memory[dest_addr] is recorded under that address
RecordStore(st, s) ==
    LET instruction == decode_instruction(Fetch(s))
        value == s.registers[instruction.B]
        v == IF instruction.opcode = "not" THEN Not32(value) ELSE value
    IN  IF /\ instruction.opcode \in {"write_mem", "not"}
           /\ AddrInMemory(instruction.C, s.data_memory)
        THEN [a \in (DOMAIN st) \cup {instruction.C} |->
                 IF a = instruction.C THEN v ELSE st[a]]
        ELSE st

-----------------------------------------------------------------------------
(* Inputs *)

SeqsUpTo(S, n) == UNION {[1..k -> S] : k \in 0..n}

LoadConst(r, v) == [opcode |-> "load_const", dest_reg |-> r, value |-> v]
ReadMem(s, d) == [opcode |-> "read_mem", src_reg |-> s, dest_reg |-> d]
WriteMem(s, a) == [opcode |-> "write_mem", src_reg |-> s, dest_addr |-> a]
Not(s, a) == [opcode |-> "not", src_reg |-> s, dest_addr |-> a]

\* the commands of the programs that are assembled and run
ProgramCmds ==
    {LoadConst(1, 5), LoadConst(1, 33554431), Not(1, 10), Not(1, 0),
     ReadMem(0, 1), ReadMem(1, 127), WriteMem(1, 5),
     [opcode |-> "jump", src_reg |-> 1]}

RegInputs == {-1, 0, 7, 45, 47, 111, 117, 127, 128}
ValueInputs == {-1, 0, 435, 11184810, 33554431, 33554432}
AddrInputs == {-1, 0, 298, 893, 8191, 8192}

\* single commands: every opcode with operands at and around the limits,
\* and the malformed commands
SingleCmds ==
    {LoadConst(r, v) : r \in RegInputs, v \in ValueInputs}
    \cup {ReadMem(r, d) : r \in RegInputs, d \in RegInputs}
    \cup {WriteMem(r, a) : r \in RegInputs, a \in AddrInputs}
    \cup {Not(r, a) : r \in RegInputs, a \in AddrInputs}
    \cup {[dest_reg |-> 1, value |-> 5],
          [opcode |-> "add", dest_reg |-> 1, value |-> 5],
          [opcode |-> "load_const", dest_reg |-> 1],
          [opcode |-> "load_const", value |-> 5],
          [opcode |-> "read_mem", src_reg |-> 1],
          [opcode |-> "read_mem", dest_reg |-> 1],
          [opcode |-> "write_mem", src_reg |-> 1],
          [opcode |-> "write_mem", dest_addr |-> 1],
          [opcode |-> "not", src_reg |-> 1],
          [opcode |-> "not", dest_addr |-> 1, dest_reg |-> 1]}

\* the command lists given to assemble
Inputs == SeqsUpTo(ProgramCmds, MaxCmds) \cup {<<c>> : c \in SingleCmds}

\* 5-byte words of binaries that do not come from the assembler:
\* not R0 -> M[0]; read_mem R0 -> R1; read_mem R1 -> R2; load_const R1 = 5;
\* write_mem R127 -> M[8191] with every bit above the C field set;
\* a word whose opcode code is 0
RawWords ==
    {<<59, 0, 0, 0, 0>>, <<62, 32, 0, 0, 0>>, <<126, 64, 0, 0, 0>>,
     <<120, 160, 0, 0, 0>>, <<246, 255, 255, 255, 255>>, <<0, 0, 0, 0, 0>>}

\* trailing bytes of a truncated binary
Tails == {<<>>, <<59>>, <<59, 0, 0, 0>>}

RECURSIVE Flatten(_)
Flatten(ws) == IF ws = <<>> THEN <<>> ELSE Head(ws) \o Flatten(Tail(ws))

\* byte strings given to decode_instruction on its own: the four opcode
\* codes and codes next to them, alone and with bits of B set, followed by
\* up to MaxBytes - 1 bytes
FirstBytes == {0, 54, 56, 59, 62, 63, 118, 190, 246, 255}

DecodeInputs ==
    {<<>>} \cup {<<f>> \o t : f \in FirstBytes, t \in SeqsUpTo({0, 255}, MaxBytes - 1)}

\* the command lists given to an Assembler instance that is used again
ReuseCmds ==
    {LoadConst(1, 5), ReadMem(0, 1), Not(1, 10), [opcode |-> "jump", src_reg |-> 1]}

ReuseInputs == SeqsUpTo(ReuseCmds, 2)

\* the address ranges given on the interpreter's command line
DumpRanges ==
    {<<-1, 0>>, <<0, 0>>, <<0, 10>>, <<5, 5>>, <<10, 0>>, <<8190, 8191>>,
     <<8191, 8192>>}

RawStreams == {Flatten(ws) \o t : ws \in SeqsUpTo(RawWords, MaxWords), t \in Tails}

-----------------------------------------------------------------------------
(* State machine *)

NoFile == <<-1>>

NoArg == <<-1>>

NoDump == [absent |-> TRUE]

InitWith(ids) ==
    /\ data = <<>>
    /\ program = <<>>
    /\ binary_data = <<>>
    /\ output_file = NoFile
    /\ assemble_result = "none"
    /\ error_line = -1
    /\ translate_calls = 0
    /\ assemble_calls = 0
    /\ interp = [i \in ids |-> NewInterpreter]
    /\ run_state = [i \in ids |-> "new"]
    /\ executed = [i \in ids |-> 0]
    /\ run_calls = [i \in ids |-> 0]
    /\ stored = [i \in ids |-> <<>>]
    /\ asm_exit = -1
    /\ run_exit = -1
    /\ dump_args = <<>>
    /\ dump_result = "none"
    /\ dump_file = NoDump
    /\ decode_arg = NoArg
    /\ decode_ret = None

Init == InitWith({1})

\* (mutant) the binary is generated and written before the result of the
\* translation is looked at
assemble_WritesPartial(d) ==
    LET t == TranslateAll(d, 1, program)
        g == generate_binary(t.program)
    IN  /\ data' = d
        /\ program' = t.program
        /\ error_line' = t.line
        /\ translate_calls' = t.calls
        /\ binary_data' = g.binary_data
        /\ output_file' = g.binary_data
        /\ assemble_result' = IF t.ok /\ g.ok THEN "True" ELSE "False"

\* Assembler.assemble on the command list d
assemble(d) ==
    LET t == TranslateAll(d, 1, program)
    IN  /\ data' = d
        /\ program' = t.program
        /\ error_line' = t.line
        /\ translate_calls' = t.calls
        /\ IF ~t.ok
           THEN /\ assemble_result' = "False"
                /\ UNCHANGED <<binary_data, output_file>>
           ELSE LET g == generate_binary(t.program)
                IN  /\ binary_data' = g.binary_data
                    /\ IF ~g.ok
                       THEN assemble_result' = "False" /\ UNCHANGED output_file
                       ELSE assemble_result' = "True" /\ output_file' = g.binary_data

\* main(): assembler = Assembler(); assembler.assemble(input_file, output_file);
\* sys.exit(1) when assemble returns False, a normal return otherwise
\* (the toolchain is a pipeline: a binary is assembled before anything is run)
Assemble ==
    /\ assemble_result = "none"
    /\ \A i \in DOMAIN run_state : run_state[i] = "new"
    /\ \E d \in Inputs : assemble(d)
    /\ assemble_calls' = assemble_calls + 1
    /\ asm_exit' = IF assemble_result' = "True" THEN 0 ELSE 1
    /\ UNCHANGED <<intVars, dumpVars, decodeVars>>

\* load_program: self.instruction_memory = bytearray(f.read())
load_program(i, bytes) ==
    /\ interp' = [interp EXCEPT ![i].instruction_memory = bytes]
    /\ run_state' = [run_state EXCEPT ![i] = "loaded"]
    /\ UNCHANGED <<executed, run_calls, stored>>

\* interpreter_main(): a new interpreter loads the binary the assembler wrote
LoadAssembled(i) ==
    /\ run_state[i] = "new"
    /\ output_file # NoFile
    /\ load_program(i, output_file)
    /\ UNCHANGED <<asmVars, dumpVars, decodeVars>>

\* interpreter_main(): a new interpreter loads a binary from elsewhere
LoadRaw(i) ==
    /\ run_state[i] = "new"
    /\ assemble_result = "none"
    /\ \E bytes \in RawStreams : load_program(i, bytes)
    /\ UNCHANGED <<asmVars, dumpVars, decodeVars>>

\* (mutant) run() starts over: self.pc = 0 and self.halted = False on entry
RunCall_Restart(i) ==
    /\ run_state[i] \in {"loaded", "returned"}
    /\ run_calls[i] < MaxRuns
    /\ run_state' = [run_state EXCEPT ![i] = "running"]
    /\ run_calls' = [run_calls EXCEPT ![i] = @ + 1]
    /\ interp' = [interp EXCEPT ![i].pc = 0, ![i].halted = FALSE]
    /\ UNCHANGED <<executed, stored>>
    /\ UNCHANGED <<asmVars, dumpVars, decodeVars>>

\* run() is called
RunCall(i) ==
    /\ run_state[i] \in {"loaded", "returned"}
    /\ run_calls[i] < MaxRuns
    /\ run_state' = [run_state EXCEPT ![i] = "running"]
    /\ run_calls' = [run_calls EXCEPT ![i] = @ + 1]
    /\ UNCHANGED <<interp, executed, stored>>
    /\ UNCHANGED <<asmVars, dumpVars, decodeVars>>

\* (mutant) data_memory is a class attribute: one list shared by all instances
RunStep_SharedMemory(i) ==
    /\ run_state[i] = "running"
    /\ CanStep(interp[i])
    /\ interp' = [j \in DOMAIN interp |->
                    IF j = i THEN StepResult(interp[i])
                    ELSE [interp[j] EXCEPT !.data_memory =
                              StepResult(interp[i]).data_memory]]
    /\ executed' = [executed EXCEPT ![i] = @ + 1]
    /\ stored' = [stored EXCEPT ![i] = RecordStore(@, interp[i])]
    /\ UNCHANGED <<run_state, run_calls>>
    /\ UNCHANGED <<asmVars, dumpVars, decodeVars>>

\* one full iteration of the loop of run()
RunStep(i) ==
    /\ run_state[i] = "running"
    /\ CanStep(interp[i])
    /\ interp' = [interp EXCEPT ![i] = StepResult(interp[i])]
    /\ executed' = [executed EXCEPT ![i] = @ + 1]
    /\ stored' = [stored EXCEPT ![i] = RecordStore(@, interp[i])]
    /\ UNCHANGED <<run_state, run_calls>>
    /\ UNCHANGED <<asmVars, dumpVars, decodeVars>>

\* the loop of run() ends (condition false, or one of the two breaks) and
\* run() returns
RunReturn(i) ==
    /\ run_state[i] = "running"
    /\ ~CanStep(interp[i])
    /\ run_state' = [run_state EXCEPT ![i] = "returned"]
    /\ UNCHANGED <<interp, executed, run_calls, stored>>
    /\ UNCHANGED <<asmVars, dumpVars, decodeVars>>

Next ==
    \/ Assemble
    \/ LoadAssembled(1)
    \/ LoadRaw(1)
    \/ RunCall(1)
    \/ RunStep(1)
    \/ RunReturn(1)

Spec == Init /\ [][Next]_vars

(* Two interpreters in one process, given the same binary. *)

InitTwin == InitWith({1, 2})

\* a new interpreter loads the binary that the other interpreter has loaded,
\* or any binary when it is the first to load
LoadSame(i) ==
    /\ run_state[i] = "new"
    /\ \E bytes \in RawStreams :
          /\ \A j \in DOMAIN interp :
                run_state[j] # "new" => interp[j].instruction_memory = bytes
          /\ load_program(i, bytes)
    /\ UNCHANGED <<asmVars, dumpVars, decodeVars>>

NextTwin ==
    \E i \in {1, 2} :
        \/ LoadSame(i)
        \/ RunCall(i)
        \/ RunStep(i)
        \/ RunReturn(i)

SpecTwin == InitTwin /\ [][NextTwin]_vars

(* The two command lines: the assembler's, and the interpreter's up to the
   memory dump and the end of the process. *)

\* interpreter_main(): interpreter.save_memory_dump(dump_file, start_addr,
\* end_addr), the listing of the registers, and the return to the shell
SaveDump(i) ==
    /\ run_state[i] = "returned"
    /\ \E r \in DumpRanges :
          LET d == save_memory_dump(interp[i], r[1], r[2])
          IN  /\ dump_args' = r
              /\ dump_result' = IF d.ok THEN "True" ELSE "False"
              /\ dump_file' = IF d.ok THEN [range |-> d.range, cells |-> d.cells]
                              ELSE dump_file
    /\ run_exit' = 0
    /\ run_state' = [run_state EXCEPT ![i] = "exited"]
    /\ UNCHANGED <<interp, executed, run_calls, stored>>
    /\ UNCHANGED <<asmVars, decodeVars>>

NextCli ==
    \/ Assemble
    \/ LoadRaw(1)
    \/ RunCall(1)
    \/ RunStep(1)
    \/ RunReturn(1)
    \/ SaveDump(1)

SpecCli == Init /\ [][NextCli]_vars

(* One Assembler instance, assemble called on it up to MaxCalls times. *)

\* assembler.assemble(input_file, output_file) on an instance that may have
\* been used before
AssembleReuse ==
    /\ assemble_calls < MaxCalls
    /\ \E d \in ReuseInputs : assemble(d)
    /\ assemble_calls' = assemble_calls + 1
    /\ UNCHANGED <<asm_exit, intVars, dumpVars, decodeVars>>

NextReuse == AssembleReuse

SpecReuse == Init /\ [][NextReuse]_vars

(* decode_instruction called on its own, on any byte string. *)

Decode ==
    /\ decode_arg = NoArg
    /\ \E bytes \in DecodeInputs :
          /\ decode_arg' = bytes
          /\ decode_ret' = decode_instruction(bytes)
    /\ UNCHANGED <<asmVars, intVars, dumpVars>>

NextDecode == Decode

SpecDecode == Init /\ [][NextDecode]_vars

-----------------------------------------------------------------------------
(* Properties *)

Assembled == assemble_result = "True"

\* the bytes of the k-th instruction of a binary
Word(bytes, k) == SubSeq(bytes, 5 * (k - 1) + 1, 5 * k)

\* C1: decoding the 5 bytes emitted for an instruction record gives a record
\* with the same opcode, A, B and C.
C1_RoundTrip ==
    Assembled =>
        /\ Len(binary_data) = 5 * Len(program)
        /\ \A k \in 1..Len(program) :
              LET x == program[k]
                  y == decode_instruction(Word(binary_data, k))
              IN  /\ y # None
                  /\ y.opcode = x.opcode
                  /\ y.A = x.A
                  /\ y.B = x.B
                  /\ y.C = x.C

\* a load_const with both operands at their maximum has been assembled
C1_Witness ==
    /\ Assembled
    /\ Len(program) = 1
    /\ program[1].opcode = "load_const"
    /\ program[1].B = 127
    /\ program[1].C = 33554431

\* C2: the 5 bytes emitted for a record are the little-endian bytes of
\* A + B * 2^6 + C * 2^13, A being the opcode's code (so the bits above the C
\* field are zero), and the four reference encodings are reproduced.  The
\* 40-bit equation is stated on its low 16 and its high 24 bits.
C2_Layout ==
    Assembled =>
        /\ \A k \in 1..Len(program) :
              LET x == program[k]
                  b == Word(binary_data, k)
              IN  /\ \A j \in 1..5 : b[j] \in 0..255
                  /\ x.A = OPCODES[x.opcode]
                  /\ b[1] + 256 * b[2] = x.A + 64 * x.B + 8192 * (x.C % 8)
                  /\ b[3] + 256 * b[4] + 65536 * b[5] = x.C \div 8
        /\ data = <<LoadConst(47, 435)>> => binary_data = <<248, 107, 54, 0, 0>>
        /\ data = <<ReadMem(111, 117)>> => binary_data = <<254, 187, 14, 0, 0>>
        /\ data = <<WriteMem(45, 298)>> => binary_data = <<118, 75, 37, 0, 0>>
        /\ data = <<Not(7, 893)>> => binary_data = <<251, 161, 111, 0, 0>>

\* the reference command not(7, 893) has been assembled
C2_Witness == Assembled /\ data = <<Not(7, 893)>> /\ Len(binary_data) = 5

\* The semantics of the symbolic commands, applied to a register file
\* (register -> value) and a memory (written address -> value, every other
\* address holding zero).
RefWord(n) == [hi |-> n \div 65536, lo |-> n % 65536]

RefMemAt(mem, a) == IF a \in DOMAIN mem THEN mem[a] ELSE RefWord(0)

RefStore(mem, a, w) == [x \in (DOMAIN mem) \cup {a} |-> IF x = a THEN w ELSE mem[x]]

RefComplement(w) == [hi |-> 65535 - w.hi, lo |-> 65535 - w.lo]

RefApply(st, cmd) ==
    IF cmd.opcode = "load_const"
    THEN [st EXCEPT !.regs[cmd.dest_reg] = RefWord(cmd.value)]
    ELSE IF cmd.opcode = "read_mem"
    THEN IF st.regs[cmd.src_reg].hi = 0 /\ st.regs[cmd.src_reg].lo < 8192
         THEN [st EXCEPT !.regs[cmd.dest_reg] = RefMemAt(st.mem, st.regs[cmd.src_reg].lo)]
         ELSE st
    ELSE IF cmd.opcode = "write_mem"
    THEN [st EXCEPT !.mem = RefStore(@, cmd.dest_addr, st.regs[cmd.src_reg])]
    ELSE [st EXCEPT !.mem = RefStore(@, cmd.dest_addr, RefComplement(st.regs[cmd.src_reg]))]

RECURSIVE RefRun(_, _)
\* the state after the first k commands, from all-zero registers and memory
RefRun(cmds, k) ==
    IF k = 0 THEN [regs |-> [r \in 0..127 |-> RefWord(0)], mem |-> <<>>]
    ELSE RefApply(RefRun(cmds, k - 1), cmds[k])

\* (an address that neither side has written holds zero on both sides)
SameAsRef(s, st) ==
    /\ DOMAIN s.registers = 0..127
    /\ \A r \in 0..127 : s.registers[r] = st.regs[r]
    /\ s.data_memory.len = 8192
    /\ \A a \in (DOMAIN s.data_memory.cells) \cup (DOMAIN st.mem) :
          /\ a \in 0..8191
          /\ MemGet(s.data_memory, a) = RefMemAt(st.mem, a)

\* C3: running the assembled binary on a fresh interpreter gives, after each
\* instruction and at the end, the registers and the memory that the
\* semantics of the symbolic commands give; when run() returns, every command
\* has been executed.
C3_Refinement ==
    (Assembled /\ run_state[1] \in {"running", "returned"}) =>
        /\ executed[1] <= Len(data)
        /\ SameAsRef(interp[1], RefRun(data, executed[1]))
        /\ run_state[1] = "returned" => executed[1] = Len(data)

\* the program not(1,0); read_mem(0,1); not(1,0) has been assembled and run:
\* register 1 holds 0xFFFFFFFF and memory[0] holds 0 again
C3_Witness ==
    /\ Assembled
    /\ run_state[1] = "returned"
    /\ data = <<Not(1, 0), ReadMem(0, 1), Not(1, 0)>>
    /\ interp[1].registers[1] = [hi |-> 65535, lo |-> 65535]

\* every 5-byte word of a binary carries one of the four opcode codes
CodesKnown(bytes) ==
    \A k \in 1..(Len(bytes) \div 5) : (bytes[5 * (k - 1) + 1] % 64) \in {54, 56, 59, 62}

\* C4 (as claimed): for any instruction stream whose length is a multiple of
\* 5, run() stops after executing exactly length / 5 instructions.
C4_ExactSteps ==
    \A i \in DOMAIN interp :
        (run_state[i] = "returned" /\ Len(interp[i].instruction_memory) % 5 = 0)
            => executed[i] = Len(interp[i].instruction_memory) \div 5

\* C4 (amended): for any instruction stream whose length is a multiple of 5
\* and each of whose 5-byte words carries one of the opcode codes 54, 56, 59,
\* 62, run() stops after executing exactly length / 5 instructions.
C4_ExactStepsDecodable ==
    \A i \in DOMAIN interp :
        (/\ run_state[i] = "returned"
         /\ Len(interp[i].instruction_memory) % 5 = 0
         /\ CodesKnown(interp[i].instruction_memory))
            => executed[i] = Len(interp[i].instruction_memory) \div 5

\* run() has returned on a foreign binary of two decodable words, both executed
C4_Witness ==
    /\ run_state[1] = "returned"
    /\ assemble_result = "none"
    /\ Len(interp[1].instruction_memory) = 10
    /\ CodesKnown(interp[1].instruction_memory)
    /\ executed[1] = 2

\* C5: whenever run() has returned, the halted flag is true.
C5_HaltedOnReturn ==
    \A i \in DOMAIN interp : run_state[i] = "returned" => interp[i].halted

\* The command schema, as the specification states it.
KnownOpcodes == {"load_const", "read_mem", "write_mem", "not"}

Required(op) ==
    IF op = "load_const" THEN {"dest_reg", "value"}
    ELSE IF op = "read_mem" THEN {"src_reg", "dest_reg"}
    ELSE {"src_reg", "dest_addr"}

WellFormed(cmd) ==
    /\ "opcode" \in DOMAIN cmd
    /\ cmd.opcode \in KnownOpcodes
    /\ Required(cmd.opcode) \subseteq DOMAIN cmd

\* the operand that becomes B, and the one that becomes C
OperandB(cmd) == IF cmd.opcode = "load_const" THEN cmd.dest_reg ELSE cmd.src_reg

OperandC(cmd) ==
    IF cmd.opcode = "load_const" THEN cmd.value
    ELSE IF cmd.opcode = "read_mem" THEN cmd.dest_reg
    ELSE cmd.dest_addr

OperandsInRange(cmd) ==
    /\ OperandB(cmd) \in 0..127
    /\ IF cmd.opcode = "load_const" THEN OperandC(cmd) \in 0..33554431
       ELSE IF cmd.opcode = "read_mem" THEN OperandC(cmd) \in 0..127
       ELSE OperandC(cmd) \in 0..8191

ValidCmd(cmd) == WellFormed(cmd) /\ OperandsInRange(cmd)

\* C6: a command with a known opcode and all its operands is accepted exactly
\* when its operands are in range; an accepted command's operands are
\* recorded and encoded without truncation, a rejected command appends no
\* record.
C6_RangeCheck ==
    assemble_result # "none" =>
        \A k \in 1..translate_calls :
            WellFormed(data[k]) =>
                IF OperandsInRange(data[k])
                THEN /\ k <= Len(program)
                     /\ program[k].B = OperandB(data[k])
                     /\ program[k].C = OperandC(data[k])
                     /\ Assembled =>
                          LET y == decode_instruction(Word(binary_data, k))
                          IN  y # None /\ y.B = OperandB(data[k])
                                       /\ y.C = OperandC(data[k])
                ELSE /\ Len(program) = k - 1
                     /\ assemble_result = "False"

\* a write_mem to address 8192 has been rejected; nothing was recorded
C6_Witness ==
    /\ assemble_result = "False"
    /\ data = <<WriteMem(0, 8192)>>
    /\ program = <<>>

\* the indexes (from 1) of the invalid commands of a list
Invalid(d) == {k \in 1..Len(d) : ~ValidCmd(d[k])}

First(S) == CHOOSE k \in S : \A j \in S : k <= j

\* C7: assemble fails exactly when some command is invalid; it then reports
\* the zero-based index of the first invalid command, and no later command is
\* validated or translated.
C7_FirstInvalid ==
    assemble_result # "none" =>
        /\ assemble_result = "False" <=> Invalid(data) # {}
        /\ Invalid(data) # {} =>
              /\ error_line = First(Invalid(data)) - 1
              /\ translate_calls = First(Invalid(data))
              /\ Len(program) = First(Invalid(data)) - 1
        /\ Invalid(data) = {} =>
              /\ error_line = -1
              /\ translate_calls = Len(data)
              /\ Len(program) = Len(data)

\* assemble has failed on the second of three commands
C7_Witness ==
    /\ assemble_result = "False"
    /\ Len(data) = 3
    /\ ValidCmd(data[1])
    /\ ~ValidCmd(data[2])
    /\ error_line = 1

\* C8: when a command fails validation, assemble writes no output file and
\* appends no byte to the binary stream.
C8_NoPartialBinary ==
    assemble_result = "False" => (output_file = NoFile /\ binary_data = <<>>)

\* assemble has failed after two valid commands
C8_Witness ==
    /\ assemble_result = "False"
    /\ Len(program) = 2
    /\ error_line = 2

\* The fields of the instruction at byte offset p of a binary, read off the
\* bytes arithmetically.
CodeAt(bytes, p) == bytes[p + 1] % 64

BAt(bytes, p) == ((bytes[p + 1] \div 64) + 4 * bytes[p + 2]) % 128

AddrAt(bytes, p) ==
    ((bytes[p + 2] \div 32) + 8 * bytes[p + 3] + 2048 * bytes[p + 4]) % 8192

\* a step that executes a not instruction stores, at the instruction's
\* address, the word that adds up with register B to 2^32 - 1
NotStep(i) ==
    LET bytes == interp[i].instruction_memory
        p == interp[i].pc
        w == interp[i].registers[BAt(bytes, p)]
        m == MemGet(interp'[i].data_memory, AddrAt(bytes, p))
    IN  (executed'[i] = executed[i] + 1 /\ CodeAt(bytes, p) = 59) =>
            /\ m.hi \in 0..65535 /\ m.lo \in 0..65535
            /\ m.hi + w.hi = 65535
            /\ m.lo + w.lo = 65535

\* C10: executing not B C sets memory[C] to 2^32 - 1 - register[B]; after
\* load_const R1 = 5, not 1 -> 10 memory[10] is 0xFFFFFFFA, and the complement
\* of 0x1FFFFFF is 0xFE000000.
C10_Complement ==
    /\ [][\A i \in DOMAIN interp : NotStep(i)]_vars
    /\ []((Assembled /\ run_state[1] = "returned") =>
            /\ data = <<LoadConst(1, 5), Not(1, 10)>> =>
                  MemGet(interp[1].data_memory, 10) = [hi |-> 65535, lo |-> 65530]
            /\ data = <<LoadConst(1, 33554431), Not(1, 10)>> =>
                  MemGet(interp[1].data_memory, 10) = [hi |-> 65024, lo |-> 0])

\* load_const R1 = 5; not 1 -> 10 has been assembled and run
C10_Witness ==
    /\ Assembled
    /\ run_state[1] = "returned"
    /\ data = <<LoadConst(1, 5), Not(1, 10)>>
    /\ executed[1] = 2
    /\ 10 \in DOMAIN interp[1].data_memory.cells

SkippedRead(s) ==
    /\ CodeAt(s.instruction_memory, s.pc) = 62
    /\ LET w == s.registers[BAt(s.instruction_memory, s.pc)]
       IN  ~(w.hi = 0 /\ w.lo <= 8191)

\* a step that executes such a read_mem changes only the PC, and sets the
\* halted flag only when the read_mem was the last instruction of the stream
ReadSkipStep(i) ==
    LET s == interp[i]
        t == interp'[i]
    IN  (executed'[i] = executed[i] + 1 /\ SkippedRead(s)) =>
            /\ t.registers = s.registers
            /\ t.data_memory = s.data_memory
            /\ t.instruction_memory = s.instruction_memory
            /\ t.pc = s.pc + 5
            /\ t.halted <=> t.pc >= Len(s.instruction_memory)

\* C11: a read_mem B C executed while register[B] is outside 0..8191 changes
\* no register and no memory word and advances the PC by 5; it does not stop
\* the run: run() returns only at the end of the stream, at a truncated
\* instruction or at an undecodable one, and the instructions that follow the
\* read_mem are executed (after load_const R1 = 0x1FFFFFF, read_mem 1 -> 127,
\* not 1 -> 10 all three are executed and memory[10] is 0xFE000000).
C11_ReadSkipped ==
    /\ [][\A i \in DOMAIN interp : ReadSkipStep(i)]_vars
    /\ [](\A i \in DOMAIN interp :
            run_state[i] = "returned" =>
                LET bytes == interp[i].instruction_memory
                    p == interp[i].pc
                IN  \/ p >= Len(bytes)
                    \/ p + 5 > Len(bytes)
                    \/ CodeAt(bytes, p) \notin {54, 56, 59, 62})
    /\ []((/\ Assembled
           /\ run_state[1] = "returned"
           /\ data = <<LoadConst(1, 33554431), ReadMem(1, 127), Not(1, 10)>>) =>
              /\ executed[1] = 3
              /\ interp[1].registers[127] = [hi |-> 0, lo |-> 0]
              /\ MemGet(interp[1].data_memory, 10) = [hi |-> 65024, lo |-> 0])

\* load_const R1 = 0x1FFFFFF; read_mem 1 -> 127; not 1 -> 10 has been run to
\* its end: the read was skipped and the not was executed
C11_Witness ==
    /\ Assembled
    /\ run_state[1] = "returned"
    /\ data = <<LoadConst(1, 33554431), ReadMem(1, 127), Not(1, 10)>>
    /\ executed[1] = 3
    /\ interp[1].pc = 15

\* The symbolic command that the word at byte offset p of a binary stands
\* for, its fields read off the bytes arithmetically.
ValueAt(bytes, p) ==
    (bytes[p + 2] \div 32) + 8 * bytes[p + 3] + 2048 * bytes[p + 4]
        + 524288 * (bytes[p + 5] % 64)

RegAt(bytes, p) == ((bytes[p + 2] \div 32) + 8 * bytes[p + 3]) % 128

CmdAt(bytes, p) ==
    IF CodeAt(bytes, p) = 56 THEN LoadConst(BAt(bytes, p), ValueAt(bytes, p))
    ELSE IF CodeAt(bytes, p) = 62 THEN ReadMem(BAt(bytes, p), RegAt(bytes, p))
    ELSE IF CodeAt(bytes, p) = 54 THEN WriteMem(BAt(bytes, p), AddrAt(bytes, p))
    ELSE Not(BAt(bytes, p), AddrAt(bytes, p))

\* the commands of the first n words of a binary
CmdsOf(bytes, n) == [k \in 1..n |-> CmdAt(bytes, 5 * (k - 1))]

\* the offsets of a binary at which fewer than 5 bytes remain or the word
\* carries none of the four opcode codes
FatalOffsets(bytes) ==
    {p \in 0..(Len(bytes) - 1) :
        /\ p % 5 = 0
        /\ \/ p + 5 > Len(bytes)
           \/ CodeAt(bytes, p) \notin {54, 56, 59, 62}}

\* C12: when the bytes at offset p do not decode, or fewer than 5 bytes
\* remain at p (p the first such offset), run() executes the instructions at
\* offsets 0, 5, ..., p - 5 and none at or after p: when it returns, p / 5
\* instructions have been executed, registers and memory are those that the
\* first p / 5 instructions produce, and the PC is p.
C12_FatalStop ==
    \A i \in DOMAIN interp :
        LET bytes == interp[i].instruction_memory
        IN  (run_state[i] \in {"running", "returned"} /\ FatalOffsets(bytes) # {}) =>
                LET p == First(FatalOffsets(bytes))
                IN  /\ interp[i].pc <= p
                    /\ 5 * executed[i] <= p
                    /\ run_state[i] = "returned" =>
                          /\ interp[i].pc = p
                          /\ 5 * executed[i] = p
                          /\ SameAsRef(interp[i], RefRun(CmdsOf(bytes, p \div 5), p \div 5))

\* run() has returned on not R0 -> M[0] followed by a word with opcode code
\* 0: one instruction executed, PC 5, memory[0] written
C12_Witness ==
    /\ run_state[1] = "returned"
    /\ interp[1].instruction_memory = <<59, 0, 0, 0, 0, 0, 0, 0, 0, 0>>
    /\ executed[1] = 1
    /\ interp[1].pc = 5
    /\ MemGet(interp[1].data_memory, 0) = [hi |-> 65535, lo |-> 65535]

\* the PC across one step of the model: an executed instruction adds 5, and
\* nothing else moves it
PcStep(i) ==
    /\ executed'[i] = executed[i] + 1 => interp'[i].pc = interp[i].pc + 5
    /\ executed'[i] = executed[i] => interp'[i].pc = interp[i].pc
    /\ executed'[i] \in {executed[i], executed[i] + 1}
    /\ interp'[i].pc >= interp[i].pc

\* C13: the PC is always a non-negative multiple of 5; it is 0 until the
\* first instruction is executed, each executed instruction adds 5 to it and
\* it never decreases, so that the k-th instruction executed is the one at
\* offset 5 * (k - 1): no offset is fetched twice or skipped.
C13_PcProgress ==
    /\ [](\A i \in DOMAIN interp :
            /\ interp[i].pc >= 0
            /\ interp[i].pc % 5 = 0
            /\ interp[i].pc = 5 * executed[i]
            /\ run_state[i] \in {"new", "loaded"} => interp[i].pc = 0)
    /\ [][\A i \in DOMAIN interp : PcStep(i)]_vars

\* two instructions of a longer program have been executed: the PC is 10
C13_Witness ==
    /\ run_state[1] = "running"
    /\ executed[1] = 2
    /\ interp[1].pc = 10
    /\ Len(interp[1].instruction_memory) = 15

\* registers other than r, and memory words other than the one at a, are the
\* same in the interpreters s and t
SameRegsBut(s, t, r) ==
    /\ DOMAIN t.registers = DOMAIN s.registers
    /\ \A x \in DOMAIN s.registers : x # r => t.registers[x] = s.registers[x]

SameMemBut(s, t, a) ==
    /\ t.data_memory.len = s.data_memory.len
    /\ \A x \in (DOMAIN s.data_memory.cells) \cup (DOMAIN t.data_memory.cells) :
          x # a => MemGet(t.data_memory, x) = MemGet(s.data_memory, x)

\* what a step that executes the instruction at the PC leaves alone
FrameStep(i) ==
    LET s == interp[i]
        t == interp'[i]
        bytes == s.instruction_memory
        code == CodeAt(bytes, s.pc)
    IN  executed'[i] = executed[i] + 1 =>
            /\ t.instruction_memory = bytes
            /\ code = 56 => /\ t.data_memory = s.data_memory
                            /\ SameRegsBut(s, t, BAt(bytes, s.pc))
            /\ code = 62 => /\ t.data_memory = s.data_memory
                            /\ SameRegsBut(s, t, RegAt(bytes, s.pc))
            /\ code \in {54, 59} => /\ t.registers = s.registers
                                   /\ SameMemBut(s, t, AddrAt(bytes, s.pc))

\* C14: load_const and read_mem leave the memory unchanged and change at most
\* one register (B for load_const, C for read_mem); write_mem and not leave
\* the registers unchanged and change at most the memory word at address C;
\* no instruction changes the instruction stream.
C14_Frame == [][\A i \in DOMAIN interp : FrameStep(i)]_vars

\* load_const R1 = 5; write_mem 1 -> 5; read_mem 1 -> 127 has been run: only
\* registers 1 and 127 and memory word 5 are written
C14_Witness ==
    /\ Assembled
    /\ run_state[1] = "returned"
    /\ data = <<LoadConst(1, 5), WriteMem(1, 5), ReadMem(1, 127)>>
    /\ DOMAIN interp[1].data_memory.cells = {5}
    /\ interp[1].registers[1] = [hi |-> 0, lo |-> 5]
    /\ interp[1].registers[127] = [hi |-> 0, lo |-> 5]
    /\ \A r \in 0..127 : r \notin {1, 127} => interp[1].registers[r] = [hi |-> 0, lo |-> 0]

\* C15: decode_instruction returns no record exactly when its input is not
\* 5 bytes long or the low 6 bits of the first byte are none of 54, 56, 59,
\* 62; otherwise it returns a record whose opcode is the one of that code and
\* whose B and C are the bits of the input: it substitutes no default.
C15_DecodeTotal ==
    decode_arg # NoArg =>
        LET b == decode_arg
            refused == Len(b) # 5 \/ (b[1] % 64) \notin {54, 56, 59, 62}
        IN  /\ decode_ret = None <=> refused
            /\ ~refused =>
                  /\ decode_ret.A = b[1] % 64
                  /\ decode_ret.opcode =
                        (IF b[1] % 64 = 56 THEN "load_const"
                         ELSE IF b[1] % 64 = 54 THEN "write_mem"
                         ELSE IF b[1] % 64 = 59 THEN "not" ELSE "read_mem")
                  /\ decode_ret.B = BAt(b, 0)
                  /\ decode_ret.C =
                        (IF b[1] % 64 = 56 THEN ValueAt(b, 0)
                         ELSE IF b[1] % 64 = 62 THEN RegAt(b, 0)
                         ELSE AddrAt(b, 0))

\* decode_instruction has refused a 6-byte input that begins with a valid
\* write_mem word
C15_Witness ==
    /\ decode_arg = <<54, 0, 0, 0, 0, 0>>
    /\ decode_ret = None

\* The 5 bytes that stand for a valid command: the little-endian bytes of
\* code + B * 2^6 + C * 2^13, computed on its low 16 and high 24 bits.
CodeOf(cmd) ==
    IF cmd.opcode = "load_const" THEN 56
    ELSE IF cmd.opcode = "write_mem" THEN 54
    ELSE IF cmd.opcode = "not" THEN 59 ELSE 62

EncodingOf(cmd) ==
    LET low == CodeOf(cmd) + 64 * OperandB(cmd) + 8192 * (OperandC(cmd) % 8)
        high == OperandC(cmd) \div 8
    IN  <<low % 256, low \div 256, high % 256, (high \div 256) % 256, high \div 65536>>

\* C16: after a successful assemble of n commands by a fresh Assembler the
\* binary is 5 * n bytes long and its bytes 5i .. 5i + 4 are the encoding of
\* the i-th command of the input: order is kept, nothing is dropped or
\* duplicated; the output file holds that binary.
C16_OrderPreserved ==
    Assembled =>
        /\ Len(binary_data) = 5 * Len(data)
        /\ \A k \in 1..Len(data) : Word(binary_data, k) = EncodingOf(data[k])
        /\ output_file = binary_data

\* three different commands have been assembled into 15 bytes
C16_Witness ==
    /\ Assembled
    /\ data = <<LoadConst(1, 33554431), ReadMem(1, 127), Not(1, 10)>>
    /\ binary_data = <<120, 224, 255, 255, 63, 126, 224, 15, 0, 0, 123, 64, 1, 0, 0>>

\* the width of the C field of an opcode, as the specification states it
WidthOf(op) == IF op = "load_const" THEN 25 ELSE IF op = "read_mem" THEN 7 ELSE 13

\* the bits from 13 up that the encoder emits for a record of the opcode whose
\* C has all of its 25 low bits set
EncodedCBits(op) ==
    LET b == EncodeCommand([opcode |-> op, A |-> OPCODES[op], B |-> 0, C |-> 33554431])
    IN  {n \in 13..39 : (b[(n \div 8) + 1] \div Pow2(n % 8)) % 2 = 1}

\* the C that the decoder returns for the word of the opcode whose bits from
\* 6 up are all set
DecodedC(op) == decode_instruction(<<OPCODES[op] + 192, 255, 255, 255, 255>>).C

\* C17: the assembler's name -> code table and the interpreter's code -> name
\* table are inverses of each other and bind load_const = 56, write_mem = 54,
\* not = 59, read_mem = 62, all below 2^6; for each opcode the encoder keeps
\* exactly the 25 / 7 / 13 / 13 low bits of C and the decoder extracts as
\* many; so every record the decoder returns carries the name to which the
\* assembler's table gives the record's code.
C17_TablesAgree ==
    /\ DOMAIN OPCODES = KnownOpcodes
    /\ DOMAIN REVERSE_OPCODES = {54, 56, 59, 62}
    /\ OPCODES["load_const"] = 56 /\ OPCODES["write_mem"] = 54
    /\ OPCODES["not"] = 59 /\ OPCODES["read_mem"] = 62
    /\ \A op \in DOMAIN OPCODES :
          /\ OPCODES[op] \in 0..63
          /\ REVERSE_OPCODES[OPCODES[op]] = op
          /\ EncodedCBits(op) = 13..(12 + WidthOf(op))
          /\ DecodedC(op) = Pow2(WidthOf(op)) - 1
    /\ \A code \in DOMAIN REVERSE_OPCODES : OPCODES[REVERSE_OPCODES[code]] = code
    /\ (decode_arg # NoArg /\ decode_ret # None) =>
          /\ decode_ret.opcode \in DOMAIN OPCODES
          /\ OPCODES[decode_ret.opcode] = decode_arg[1] % 64
          /\ decode_ret.C < Pow2(WidthOf(decode_ret.opcode))

\* a read_mem word with every bit from 6 up set has been decoded: its C is
\* the 7 bits 13..19
C17_Witness ==
    /\ decode_arg = <<190, 255, 255, 255, 255>>
    /\ decode_ret # None
    /\ decode_ret.opcode = "read_mem"
    /\ decode_ret.C = 127

\* the number that four hexadecimal digits stand for
HexValue(h, k) == 4096 * h[k] + 256 * h[k + 1] + 16 * h[k + 2] + h[k + 3]

\* C18: save_memory_dump(start, end) reports an error and produces no entry
\* exactly when start < 0, end >= 8192 or start > end; for every other range
\* it produces one entry per address from start to end, in ascending order,
\* each with the value the memory holds at that address; in both cases it
\* leaves registers, memory and PC unchanged.
C18_DumpRange ==
    /\ [](dump_result # "none" =>
            LET start == dump_args[1]
                end == dump_args[2]
                refused == start < 0 \/ end >= 8192 \/ start > end
            IN  /\ dump_result = "False" <=> refused
                /\ refused => dump_file = NoDump
                /\ ~refused =>
                      /\ dump_file # NoDump
                      /\ dump_file.range = [start |-> start, end |-> end]
                      /\ Len(dump_file.cells) = end - start + 1
                      /\ \A k \in 1..(end - start + 1) :
                            LET c == dump_file.cells[k]
                                w == MemGet(interp[1].data_memory, start + k - 1)
                            IN  /\ c.address = start + k - 1
                                /\ c.value = w
                                /\ HexValue(c.hex, 1) = w.hi
                                /\ HexValue(c.hex, 5) = w.lo)
    /\ [][dump_result' # dump_result => interp' = interp]_vars

\* after not R0 -> M[0], the range 0..10 has been dumped: eleven entries, the
\* first holding 0xFFFFFFFF
C18_Witness ==
    /\ dump_result = "True"
    /\ dump_args = <<0, 10>>
    /\ Len(dump_file.cells) = 11
    /\ dump_file.cells[1].hex = <<15, 15, 15, 15, 15, 15, 15, 15>>
    /\ dump_file.cells[11].address = 10

\* C19: every invocation of the command line that meets a validation failure
\* (assembling) or a decoding failure (running: an undecodable or truncated
\* instruction) ends with a non-zero exit status.
C19_NonZeroExit ==
    /\ (asm_exit # -1 /\ assemble_result = "False") => asm_exit # 0
    /\ (run_exit # -1 /\ FatalOffsets(interp[1].instruction_memory) # {}) =>
          run_exit # 0

\* a step that executes read_mem B C while register[B] is an address on
\* which a write_mem or a not has been executed: register[C] becomes the word
\* that the last of them stored there
ReadAfterStore(i) ==
    LET s == interp[i]
        bytes == s.instruction_memory
        w == s.registers[BAt(bytes, s.pc)]
    IN  (/\ executed'[i] = executed[i] + 1
         /\ CodeAt(bytes, s.pc) = 62
         /\ w.hi = 0
         /\ w.lo \in DOMAIN stored[i]) =>
            interp'[i].registers[RegAt(bytes, s.pc)] = stored[i][w.lo]

\* C20: if a write_mem or a not stores the value v at address a, and a later
\* read_mem B C is executed while register[B] = a, no instruction in between
\* having written address a, then right after the read_mem register[C] = v
\* (after load_const R1 = 5, write_mem 1 -> 5, read_mem 1 -> 127 register 127
\* holds 5).
C20_ReadAfterWrite ==
    /\ [][\A i \in DOMAIN interp : ReadAfterStore(i)]_vars
    /\ []((/\ Assembled
           /\ run_state[1] = "returned"
           /\ data = <<LoadConst(1, 5), WriteMem(1, 5), ReadMem(1, 127)>>) =>
              interp[1].registers[127] = [hi |-> 0, lo |-> 5])

\* not 1 -> 0 has stored 0xFFFFFFFF at address 0 and read_mem 0 -> 1 has
\* read it back into register 1
C20_Witness ==
    /\ Assembled
    /\ run_state[1] = "returned"
    /\ data = <<Not(1, 0), ReadMem(0, 1)>>
    /\ stored[1] = (0 :> [hi |-> 65535, lo |-> 65535])
    /\ interp[1].registers[1] = [hi |-> 65535, lo |-> 65535]

\* a word is an integer in 0 .. 2^32 - 1
WordInRange(w) == w.hi \in 0..65535 /\ w.lo \in 0..65535

\* C21: in every state of a run that starts from a fresh interpreter, on any
\* byte stream, every register and every memory word holds an integer in
\* 0 .. 2^32 - 1, the register file has exactly 128 slots and the data memory
\* exactly 8192 words.
C21_ValueRanges ==
    \A i \in DOMAIN interp :
        /\ DOMAIN interp[i].registers = 0..127
        /\ \A r \in 0..127 : WordInRange(interp[i].registers[r])
        /\ interp[i].data_memory.len = 8192
        /\ DOMAIN interp[i].data_memory.cells \subseteq 0..8191
        /\ \A a \in DOMAIN interp[i].data_memory.cells :
              WordInRange(MemGet(interp[i].data_memory, a))

\* not R0 -> M[0]; read_mem R0 -> R1 has been run: memory word 0 and
\* register 1 hold 2^32 - 1
C21_Witness ==
    /\ run_state[1] = "returned"
    /\ interp[1].instruction_memory = <<59, 0, 0, 0, 0, 62, 32, 0, 0, 0>>
    /\ MemGet(interp[1].data_memory, 0) = [hi |-> 65535, lo |-> 65535]
    /\ interp[1].registers[1] = [hi |-> 65535, lo |-> 65535]

\* the indexes that a step executing the instruction at the PC uses: the
\* register B, the register C of a read_mem and the address C of a write_mem
\* or a not, as decode_instruction hands them to execute_instruction
IndexesInRange(i) ==
    LET s == interp[i]
        instruction == decode_instruction(Fetch(s))
    IN  executed'[i] = executed[i] + 1 =>
            /\ instruction.B \in DOMAIN s.registers
            /\ instruction.opcode = "read_mem" =>
                  instruction.C \in DOMAIN s.registers
            /\ instruction.opcode \in {"write_mem", "not"} =>
                  /\ instruction.C \in 0..8191
                  /\ AddrInMemory(instruction.C, s.data_memory)
                  /\ instruction.C \in DOMAIN stored'[i]

\* C22: on every byte stream, also one that the assembler did not produce,
\* every register index the executor uses is in 0..127 and every address
\* that write_mem or not writes is in 0..8191: the bounds test of write_mem
\* and not never fails, and every such instruction executed does store.
C22_IndexesInRange ==
    /\ [][\A i \in DOMAIN interp : IndexesInRange(i)]_vars
    /\ [](\A i \in DOMAIN interp :
            /\ DOMAIN interp[i].registers = 0..127
            /\ DOMAIN stored[i] \subseteq 0..8191)

\* the word write_mem R127 -> M[8191] with every bit above its C field set
\* has been executed: the store went to address 8191
C22_Witness ==
    /\ run_state[1] = "returned"
    /\ interp[1].instruction_memory = <<246, 255, 255, 255, 255>>
    /\ executed[1] = 1
    /\ DOMAIN stored[1] = {8191}

\* C23: the binary stream that a successful assemble produces holds exactly
\* the encodings of the commands of that call's input, in their order, also
\* when the same Assembler instance has been used for an earlier call that
\* succeeded or that failed part-way through.
C23_ReuseExact ==
    Assembled =>
        /\ Len(binary_data) = 5 * Len(data)
        /\ \A k \in 1..Len(data) : EncodingOf(data[k]) = Word(binary_data, k)

\* a step of a call of run() made after run() has returned once: the call
\* itself, and everything up to its return
LaterRunStep(i) ==
    (run_state[i] = "returned" \/ run_calls[i] >= 2) =>
        /\ executed'[i] = executed[i]
        /\ interp'[i].registers = interp[i].registers
        /\ interp'[i].data_memory = interp[i].data_memory
        /\ interp'[i].pc = interp[i].pc
        /\ interp'[i].halted = interp[i].halted
        /\ interp'[i].instruction_memory = interp[i].instruction_memory

\* C24: calling run() again on an interpreter on which run() has returned (at
\* the end of the stream, at a truncated instruction or at an undecodable
\* one) executes no instruction and leaves registers, memory, PC and the
\* halted flag unchanged; the second call returns as well.
C24_RunIdempotent ==
    /\ [][\A i \in DOMAIN interp : LaterRunStep(i)]_vars
    /\ [](\A i \in DOMAIN interp :
            (run_state[i] = "running" /\ run_calls[i] >= 2) => ~CanStep(interp[i]))

\* run() has returned a second time on a binary of one instruction and four
\* more bytes: still one instruction executed, PC 5, not halted
C24_Witness ==
    /\ run_state[1] = "returned"
    /\ run_calls[1] = 2
    /\ interp[1].instruction_memory = <<59, 0, 0, 0, 0, 59, 0, 0, 0>>
    /\ executed[1] = 1
    /\ interp[1].pc = 5
    /\ ~interp[1].halted

\* a 5-byte word with the bits above its opcode's C field cleared: bits 38..39
\* for load_const, 20..39 for read_mem, 26..39 for write_mem and not
Cleared(w) ==
    IF w[1] % 64 = 56 THEN <<w[1], w[2], w[3], w[4], w[5] % 64>>
    ELSE IF w[1] % 64 = 62 THEN <<w[1], w[2], w[3] % 16, 0, 0>>
    ELSE <<w[1], w[2], w[3], w[4] % 4, 0>>

\* C25: for every 5-byte word w that decodes, encoding the decoded record
\* gives w with the bits above the opcode's C field cleared; so words with
\* padding bits set are accepted, w and its cleared form decode to the same
\* record, and encode(decode(w)) = w exactly when the padding bits of w are
\* zero.
C25_ReencodeClears ==
    (decode_arg # NoArg /\ decode_ret # None) =>
        LET w == decode_arg
            e == EncodeCommand(decode_ret)
        IN  /\ e = Cleared(w)
            /\ decode_instruction(Cleared(w)) = decode_ret
            /\ e = w <=>
                  (IF w[1] % 64 = 56 THEN w[5] < 64
                   ELSE IF w[1] % 64 = 62 THEN w[3] < 16 /\ w[4] = 0 /\ w[5] = 0
                   ELSE w[4] < 4 /\ w[5] = 0)

\* the write_mem word with every bit from 6 up set has been decoded, padding
\* bits and all: B is 127 and C is 8191
C25_Witness ==
    /\ decode_arg = <<246, 255, 255, 255, 255>>
    /\ decode_ret # None
    /\ decode_ret.opcode = "write_mem"
    /\ decode_ret.B = 127
    /\ decode_ret.C = 8191

====
